---- MODULE Spec2Model ----
(***************************************************************************)
(* The programs of the course notebooks and of the project scripts:        *)
(*  - the producer/consumer prime pipeline (04_0_IPC_and_Locking.py):      *)
(*    check_prime, the chunk generator, the queue worker, its test and the *)
(*    main process of calculate_primes;                                    *)
(*  - the shared counter of 04_1_IPC_and_Locking_cont.py;                  *)
(*  - the sequence search of 06_1_Numba.py, whole, by chunks and parallel; *)
(*  - the queue of failures of 02_3_MultiProcessing_tutorial.py;           *)
(*  - solution2app of project-scripts/prepare-notebooks.py.                *)
(***************************************************************************)
EXTENDS Integers, Sequences, FiniteSets, TLC

VARIABLES
    \* ---- check_prime called on one candidate
    cand,        \* the argument n of check_prime
    cpc,         \* "call" before the call, "ret" after it
    cret,        \* the value returned
    \* ---- the chunk generator run on one list
    glst,        \* the argument lst of chunks
    gn,          \* the argument n of chunks
    gpc,         \* "new", "running", "done" (StopIteration), "error" (ValueError)
    gidx,        \* how many values of range(0, len(lst), n) were consumed
    yielded,     \* the chunks yielded so far, in generation order
    \* ---- the pipeline of calculate_primes(ncores, N, chunksize)
    N, chunksize, ncores,
    dpc,         \* main process: "start", "feed", "terminate", "wait", "collect", "done"
    fed,         \* number of chunks put on the input queue
    nonePut,     \* number of None put on the input queue
    input,       \* the input queue
    output,      \* the output queue
    wstate,      \* worker -> "NEW", "RUNNING", "TERMINATED"
    cur,         \* worker -> the chunk it holds (Idle when it holds none)
    results,     \* the batches collected by the main process, in drain order
    returned,    \* the list returned by calculate_primes
    \* ---- history (observation only)
    inPuts,      \* the items put on the input queue, in order
    inGets,      \* the items got from the input queue, in order
    outPuts,     \* the batches put on the output queue, in order
    outGets,     \* the batches got from the output queue, in order
    getCount,    \* worker -> number of input.get() that returned
    noneCount,   \* worker -> number of input.get() that returned None
    putCount,    \* worker -> number of output.put()
    takenBy,     \* chunk id -> the set of workers that dequeued it
    \* ---- the shared counter of run_workers(ncores, N) (04_1_IPC_and_Locking_cont.py)
    ctrMode,     \* "off", "value" (work), "locked" (Value and one lock), "rawlocked" (RawValue and one lock)
    ctrCores,    \* the argument ncores of run_workers
    max_count,   \* the argument max_count of work (N of run_workers)
    value,       \* value.value, the shared integer
    lock,        \* the worker holding the manual lock, 0 when it is free
    ctrPc,       \* worker -> "acquire", "load", "add", "store", "release", "done"
    priv,        \* worker -> its private copy of the value (top of its stack)
    ctrLeft,     \* worker -> increments still to do
    \* ---- the capacities of the two queues of the pipeline (maxsize; 0: unbounded)
    inCap, outCap,
    \* ---- the sequence search (06_1_Numba.py)
    sdata,       \* the argument data
    sseq,        \* the argument seq
    sn,          \* the chunk size given to chunks(range(cor_size), n)
    spc,         \* "off"; "numba", "chunks", "done"; "prange", "done"
    seqres,      \* what search_sequence_numba(data, seq) returned
    mpdone,      \* number of chunks given to search_sequence_numba2
    mpres,       \* the results of search_sequence_numba2, chained
    owner,       \* prange: index i (at i + 1) -> the thread that runs iteration i
    matches,     \* prange: the array matches (index i at i + 1)
    tk,          \* prange: thread -> number of its iterations finished
    tj,          \* prange: thread -> the index j of its inner loop
    tph,         \* prange: thread -> "load" or "store"
    treg,        \* prange: thread -> the value of matches[i] it loaded
    writers,     \* prange: index i (at i + 1) -> the threads that stored matches[i]
    pres,        \* prange: the value returned
    \* ---- the queue of failures (02_3_MultiProcessing_tutorial.py)
    vmcalls,             \* the vm_name arguments of the calls given to starmap
    callState,           \* call -> "todo", "running", "put", "True", "None"
    queue_for_failures,  \* the managed queue shared by the calls
    failed_vms,          \* the list filled by the drain loop
    fpc,                 \* "off"; "starmap", "drain", "done"
    \* ---- solution2app (project-scripts/prepare-notebooks.py)
    filepath,    \* the argument, a string written as the sequence of its pieces
    appfile,     \* the value returned
    apc          \* "off"; "call", "ret"

primeVars == <<cand, cpc, cret>>
genVars   == <<glst, gn, gpc, gidx, yielded>>
pipeVars  == <<N, chunksize, ncores, dpc, fed, nonePut, input, output, wstate, cur,
               results, returned>>
histVars  == <<inPuts, inGets, outPuts, outGets, getCount, noneCount, putCount, takenBy>>
ctrVars   == <<ctrMode, ctrCores, max_count, value, lock, ctrPc, priv, ctrLeft>>
capVars   == <<inCap, outCap>>
srchVars  == <<sdata, sseq, sn, spc, seqres, mpdone, mpres, owner, matches, tk, tj, tph,
               treg, writers, pres>>
failVars  == <<vmcalls, callState, queue_for_failures, failed_vms, fpc>>
appVars   == <<filepath, appfile, apc>>
extVars   == <<ctrVars, capVars, srchVars, failVars, appVars>>
vars      == <<primeVars, genVars, pipeVars, histVars, extVars>>

----------------------------------------------------------------------------
\* Bounds of the model.
MaxCandidate == 120   \* check_prime is called on 0..MaxCandidate
MaxLen       == 4     \* longest list given to chunks
MaxElem      == 3     \* list elements are drawn from 1..MaxElem
MaxChunkArg  == 3     \* largest n given to chunks
MaxN         == 6     \* largest upper limit N of the pipeline
MaxChunks    == 3     \* the pipeline runs on the (N, chunksize) giving at most MaxChunks chunks
MaxCores     == 2     \* largest ncores of the pipeline
MaxCtrCores  == 2     \* largest ncores of run_workers
MaxCount     == 2     \* largest max_count of work
MaxCap       == 2     \* largest capacity of a bounded queue
MaxTestLen   == 2     \* longest chunk put on the input queue in the worker test
MaxData      == 3     \* longest data of the sequence search
MaxSeq       == 2     \* longest seq of the sequence search
MaxDigit     == 1     \* data and seq hold digits 0..MaxDigit
MaxCalls     == 3     \* largest number of calls given to starmap
MaxPath      == 7     \* longest filepath given to solution2app, in pieces
PoolSize     == 2     \* Pool(2)

Min(a, b) == IF a < b THEN a ELSE b

----------------------------------------------------------------------------
\* Python helpers used by the code.

\* int(math.sqrt(n)) for n >= 0
ISqrt(n) == CHOOSE r \in 0..n : r * r <= n /\ (r + 1) * (r + 1) > n

\* range(start, stop, step) for step > 0, as a sequence
RECURSIVE RangeFrom(_, _, _)
RangeFrom(start, stop, step) ==
    IF start >= stop THEN <<>>
    ELSE <<start>> \o RangeFrom(start + step, stop, step)

\* range(start, stop, step): empty for a negative step going up
PyRange(start, stop, step) ==
    IF step > 0 THEN RangeFrom(start, stop, step) ELSE <<>>

\* lst[i:j] for 0 <= i
Slice(lst, i, j) == SubSeq(lst, i + 1, Min(j, Len(lst)))

\* the loop of check_prime: for i in range(i, stop, 2): if n % i == 0: return False
RECURSIVE check_prime_loop(_, _, _)
check_prime_loop(n, i, stop) ==
    IF i >= stop THEN TRUE
    ELSE IF n % i = 0 THEN FALSE
    ELSE check_prime_loop(n, i + 2, stop)

check_prime(n) ==
    IF n % 2 = 0 THEN FALSE
    ELSE check_prime_loop(n, 3, ISqrt(n) + 1)

\* a worker that forgets the filter: list(r)
find_primes_unfiltered(r) == r

\* a worker that builds its list backwards: insert(0, x) instead of append(x)
RECURSIVE find_primes_reversed(_)
find_primes_reversed(r) ==
    IF r = <<>> THEN <<>>
    ELSE find_primes_reversed(Tail(r)) \o (IF check_prime(Head(r)) THEN <<Head(r)>> ELSE <<>>)

\* filter(check_prime, r), as a list
RECURSIVE find_primes(_)
find_primes(r) ==
    IF r = <<>> THEN <<>>
    ELSE (IF check_prime(Head(r)) THEN <<Head(r)>> ELSE <<>>) \o find_primes(Tail(r))

\* a loop that runs one value too far: range(0, len(lst) + 1, n)
ChunkStartsPastEnd(lst, n) == PyRange(0, Len(lst) + 1, n)

\* the values the for loop of chunks runs through: range(0, len(lst), n)
ChunkStarts(lst, n) == PyRange(0, Len(lst), n)

\* a slice one element too long: lst[i:i + n + 1]
ChunkAtOverlap(lst, n, i) == Slice(lst, i, i + n + 1)

\* the chunk yielded for the loop value i: lst[i:i + n]
ChunkAt(lst, n, i) == Slice(lst, i, i + n)

\* list(chunks(lst, n)) for n > 0
chunks(lst, n) ==
    [k \in 1..Len(ChunkStarts(lst, n)) |-> ChunkAt(lst, n, ChunkStarts(lst, n)[k])]

\* the lists chained last first
RECURSIVE chain_backwards(_)
chain_backwards(ll) == IF ll = <<>> THEN <<>> ELSE chain_backwards(Tail(ll)) \o Head(ll)

\* chain(*list_of_list), as a list
RECURSIVE chain(_)
chain(ll) == IF ll = <<>> THEN <<>> ELSE Head(ll) \o chain(Tail(ll))

----------------------------------------------------------------------------
\* check_prime on one candidate.

PrimeIdle == cand = 0 /\ cpc = "off" /\ cret = FALSE

InitPrime == cand \in 0..MaxCandidate /\ cpc = "call" /\ cret = FALSE

CallCheckPrime ==
    /\ cpc = "call"
    /\ cret' = check_prime(cand)
    /\ cpc' = "ret"
    /\ UNCHANGED cand

----------------------------------------------------------------------------
\* The generator chunks(lst, n), advanced one next() at a time.

SeqsUpTo(S, len) == UNION {[1..k -> S] : k \in 0..len}

GenIdle == glst = <<>> /\ gn = 1 /\ gpc = "off" /\ gidx = 0 /\ yielded = <<>>

InitGen ==
    /\ glst \in SeqsUpTo(1..MaxElem, MaxLen)
    /\ gn \in (0 - 1)..MaxChunkArg
    /\ gpc = "new"
    /\ gidx = 0
    /\ yielded = <<>>

\* the first next(): range(0, len(lst), n) is built; a zero step raises ValueError
GenStart ==
    /\ gpc = "new"
    /\ gpc' = IF gn = 0 THEN "error" ELSE "running"
    /\ UNCHANGED <<glst, gn, gidx, yielded>>

\* one turn of the for loop: yield lst[i:i + n]
GenYield ==
    /\ gpc = "running"
    /\ gidx < Len(ChunkStarts(glst, gn))
    /\ yielded' = Append(yielded, ChunkAt(glst, gn, ChunkStarts(glst, gn)[gidx + 1]))
    /\ gidx' = gidx + 1
    /\ UNCHANGED <<glst, gn, gpc>>

\* the range is exhausted: the generator returns
GenStop ==
    /\ gpc = "running"
    /\ gidx = Len(ChunkStarts(glst, gn))
    /\ gpc' = "done"
    /\ UNCHANGED <<glst, gn, gidx, yielded>>

----------------------------------------------------------------------------
\* The queues (managed queues: FIFO, unbounded, put never blocks, get blocks
\* while the queue is empty).

\* a put that places the item at the head of the queue
QPutFront(q, x) == <<x>> \o q

QPut(q, x) == Append(q, x)

\* a queue that hands out its newest item first
QGetNewest(q) == <<q[Len(q)], SubSeq(q, 1, Len(q) - 1)>>

\* get on a non-empty queue: the item returned, and what stays in the queue
QGet(q)   == <<Head(q), Tail(q)>>
QFront(q) == QGet(q)[1]
QRest(q)  == QGet(q)[2]

\* What travels on the input queue: a chunk (tagged with its rank among the
\* generated chunks) or None.
None  == [kind |-> "None", id |-> 0, data |-> <<>>]
Idle  == [kind |-> "idle", id |-> 0, data |-> <<>>]
ChunkItem(k, c) == [kind |-> "chunk", id |-> k, data |-> c]

\* iter(input.get, None) stops on the item equal to None
IsSentinel(item) == item = None

\* a pool in which only the first worker computes, the others put an empty list
primes_found_first_only(w, item) ==
    [id |-> item.id, by |-> w, data |-> IF w = 1 THEN find_primes(item.data) ELSE <<>>]

\* the list a worker puts for a chunk (tagged with the chunk and the worker)
primes_found(w, item) == [id |-> item.id, by |-> w, data |-> find_primes(item.data)]

\* chunks(range(1, N), chunksize)
AllChunks == chunks(PyRange(1, N, 1), chunksize)
NChunks   == Len(AllChunks)

\* one None too many, one None too few
NumSentinelsExtra == ncores + 1
NumSentinelsShort == ncores - 1

\* ncores * None
NumSentinels == ncores

Workers == 1..ncores

----------------------------------------------------------------------------
\* calculate_primes(ncores, N, chunksize)

PipeIdle ==
    /\ N = 2 /\ chunksize = 1 /\ ncores = 1
    /\ dpc = "off" /\ fed = 0 /\ nonePut = 0
    /\ input = <<>> /\ output = <<>>
    /\ wstate = <<>> /\ cur = <<>>
    /\ results = <<>> /\ returned = <<>>
    /\ inPuts = <<>> /\ inGets = <<>> /\ outPuts = <<>> /\ outGets = <<>>
    /\ getCount = <<>> /\ noneCount = <<>> /\ putCount = <<>> /\ takenBy = <<>>

InitPipe ==
    /\ N \in 2..MaxN
    /\ chunksize \in 1..N
    /\ NChunks <= MaxChunks
    /\ ncores \in 1..MaxCores
    /\ dpc = "start" /\ fed = 0 /\ nonePut = 0
    /\ input = <<>> /\ output = <<>>
    /\ wstate = [w \in Workers |-> "NEW"]
    /\ cur = [w \in Workers |-> Idle]
    /\ results = <<>> /\ returned = <<>>
    /\ inPuts = <<>> /\ inGets = <<>> /\ outPuts = <<>> /\ outGets = <<>>
    /\ getCount = [w \in Workers |-> 0]
    /\ noneCount = [w \in Workers |-> 0]
    /\ putCount = [w \in Workers |-> 0]
    /\ takenBy = [k \in 1..NChunks |-> {}]

params == <<N, chunksize, ncores>>

\* 1. starmap_async of the worker function on the pool: the workers run
\* (Pool(ncores) raises ValueError when ncores < 1)
StartWorkers ==
    /\ dpc = "start"
    /\ IF ncores < 1
       THEN dpc' = "error" /\ UNCHANGED wstate
       ELSE /\ wstate' = [w \in Workers |-> "RUNNING"]
            /\ dpc' = IF chunksize # 0 /\ NChunks = 0 THEN "terminate" ELSE "feed"
    /\ UNCHANGED <<params, fed, nonePut, input, output, cur, results, returned>>
    /\ UNCHANGED histVars

\* a feeder that puts every chunk twice
FeedTwice ==
    /\ dpc = "feed"
    /\ fed < NChunks
    /\ input' = QPut(QPut(input, ChunkItem(fed + 1, AllChunks[fed + 1])),
                     ChunkItem(fed + 1, AllChunks[fed + 1]))
    /\ inPuts' = Append(Append(inPuts, ChunkItem(fed + 1, AllChunks[fed + 1])),
                        ChunkItem(fed + 1, AllChunks[fed + 1]))
    /\ fed' = fed + 1
    /\ dpc' = IF fed + 1 = NChunks THEN "terminate" ELSE "feed"
    /\ UNCHANGED <<params, nonePut, output, wstate, cur, results, returned>>
    /\ UNCHANGED <<inGets, outPuts, outGets, getCount, noneCount, putCount, takenBy>>

\* 2. feed the input queue with the next chunk of chunks(range(1, N), chunksize)
Feed ==
    /\ dpc = "feed"
    /\ fed < NChunks
    /\ input' = QPut(input, ChunkItem(fed + 1, AllChunks[fed + 1]))
    /\ inPuts' = Append(inPuts, ChunkItem(fed + 1, AllChunks[fed + 1]))
    /\ fed' = fed + 1
    /\ dpc' = IF fed + 1 = NChunks THEN "terminate" ELSE "feed"
    /\ UNCHANGED <<params, nonePut, output, wstate, cur, results, returned>>
    /\ UNCHANGED <<inGets, outPuts, outGets, getCount, noneCount, putCount, takenBy>>

\* 2. chunks(range(1, N), 0): the first next() of the generator raises ValueError
FeedRaise ==
    /\ dpc = "feed"
    /\ chunksize = 0
    /\ dpc' = "error"
    /\ UNCHANGED <<params, fed, nonePut, input, output, wstate, cur, results, returned>>
    /\ UNCHANGED histVars

\* 3. terminate the input queue: one None for each worker
Terminate ==
    /\ dpc = "terminate"
    /\ nonePut < NumSentinels
    /\ input' = QPut(input, None)
    /\ inPuts' = Append(inPuts, None)
    /\ nonePut' = nonePut + 1
    /\ dpc' = IF nonePut + 1 = NumSentinels THEN "wait" ELSE "terminate"
    /\ UNCHANGED <<params, fed, output, wstate, cur, results, returned>>
    /\ UNCHANGED <<inGets, outPuts, outGets, getCount, noneCount, putCount, takenBy>>

\* a wait that also waits for the output queue to be empty
WaitWorkersJoin ==
    /\ dpc = "wait"
    /\ \A w \in Workers : wstate[w] = "TERMINATED"
    /\ output = <<>>
    /\ dpc' = "collect"
    /\ UNCHANGED <<params, fed, nonePut, input, output, wstate, cur, results, returned>>
    /\ UNCHANGED histVars

\* 4. wait for the workers to finish
WaitWorkers ==
    /\ dpc = "wait"
    /\ \A w \in Workers : wstate[w] = "TERMINATED"
    /\ dpc' = "collect"
    /\ UNCHANGED <<params, fed, nonePut, input, output, wstate, cur, results, returned>>
    /\ UNCHANGED histVars

\* 4. the workers have finished, one of them by an exception: either the wait
\* returns (AsyncResult.wait) or it raises the worker's exception (AsyncResult.get)
WaitFailed ==
    /\ dpc = "wait"
    /\ \A w \in Workers : wstate[w] \in {"TERMINATED", "FAILED"}
    /\ \E w \in Workers : wstate[w] = "FAILED"
    /\ dpc' \in {"collect", "raised"}
    /\ UNCHANGED <<params, fed, nonePut, input, output, wstate, cur, results, returned>>
    /\ UNCHANGED histVars

\* 5. collect: take one batch from the output queue, as many as there were chunks
Collect ==
    /\ dpc = "collect"
    /\ Len(results) < NChunks
    /\ output # <<>>
    /\ results' = Append(results, QFront(output))
    /\ outGets' = Append(outGets, QFront(output))
    /\ output' = QRest(output)
    /\ UNCHANGED <<params, dpc, fed, nonePut, input, wstate, cur, returned>>
    /\ UNCHANGED <<inPuts, inGets, outPuts, getCount, noneCount, putCount, takenBy>>

\* 5. return the results: the batches chained into one list
Return ==
    /\ dpc = "collect"
    /\ Len(results) = NChunks
    /\ returned' = chain([i \in 1..Len(results) |-> results[i].data])
    /\ dpc' = "done"
    /\ UNCHANGED <<params, fed, nonePut, input, output, wstate, cur, results>>
    /\ UNCHANGED histVars

\* find_prime_worker: chunk = input.get(); the loop ends on None
WorkerGet(w) ==
    /\ wstate[w] = "RUNNING"
    /\ cur[w] = Idle
    /\ input # <<>>
    /\ input' = QRest(input)
    /\ inGets' = Append(inGets, QFront(input))
    /\ getCount' = [getCount EXCEPT ![w] = @ + 1]
    /\ IF IsSentinel(QFront(input))
       THEN /\ wstate' = [wstate EXCEPT ![w] = "TERMINATED"]
            /\ noneCount' = [noneCount EXCEPT ![w] = @ + 1]
            /\ UNCHANGED <<cur, takenBy>>
       ELSE /\ cur' = [cur EXCEPT ![w] = QFront(input)]
            /\ takenBy' = [takenBy EXCEPT ![QFront(input).id] = @ \cup {w}]
            /\ UNCHANGED <<wstate, noneCount>>
    /\ UNCHANGED <<params, dpc, fed, nonePut, output, results, returned>>
    /\ UNCHANGED <<inPuts, outPuts, outGets, putCount>>

\* find_prime_worker: an exception raised while the chunk is processed leaves
\* the loop; nothing is put for the chunk
WorkerRaise(w) ==
    /\ wstate[w] = "RUNNING"
    /\ cur[w] # Idle
    /\ wstate' = [wstate EXCEPT ![w] = "FAILED"]
    /\ UNCHANGED <<params, dpc, fed, nonePut, input, output, cur, results, returned>>
    /\ UNCHANGED histVars

\* a worker that appends its list to the results of the main process
WorkerPutShared(w) ==
    /\ wstate[w] = "RUNNING"
    /\ cur[w] # Idle
    /\ results' = Append(results, primes_found(w, cur[w]))
    /\ outPuts' = Append(outPuts, primes_found(w, cur[w]))
    /\ putCount' = [putCount EXCEPT ![w] = @ + 1]
    /\ cur' = [cur EXCEPT ![w] = Idle]
    /\ UNCHANGED <<params, dpc, fed, nonePut, input, output, wstate, returned>>
    /\ UNCHANGED <<inPuts, inGets, outGets, getCount, noneCount, takenBy>>

\* a worker that puts its list twice
WorkerPutTwice(w) ==
    /\ wstate[w] = "RUNNING"
    /\ cur[w] # Idle
    /\ output' = QPut(QPut(output, primes_found(w, cur[w])), primes_found(w, cur[w]))
    /\ outPuts' = Append(Append(outPuts, primes_found(w, cur[w])), primes_found(w, cur[w]))
    /\ putCount' = [putCount EXCEPT ![w] = @ + 2]
    /\ cur' = [cur EXCEPT ![w] = Idle]
    /\ UNCHANGED <<params, dpc, fed, nonePut, input, wstate, results, returned>>
    /\ UNCHANGED <<inPuts, inGets, outGets, getCount, noneCount, takenBy>>

\* find_prime_worker: primes_found = ...; output.put(primes_found)
WorkerPut(w) ==
    /\ wstate[w] = "RUNNING"
    /\ cur[w] # Idle
    /\ output' = QPut(output, primes_found(w, cur[w]))
    /\ outPuts' = Append(outPuts, primes_found(w, cur[w]))
    /\ putCount' = [putCount EXCEPT ![w] = @ + 1]
    /\ cur' = [cur EXCEPT ![w] = Idle]
    /\ UNCHANGED <<params, dpc, fed, nonePut, input, wstate, results, returned>>
    /\ UNCHANGED <<inPuts, inGets, outGets, getCount, noneCount, takenBy>>

Dispatcher == StartWorkers \/ Feed \/ Terminate \/ WaitWorkers \/ Collect \/ Return
Worker(w)  == WorkerGet(w) \/ WorkerPut(w)

----------------------------------------------------------------------------
\* The shared counter: ncores workers, each doing max_count times
\* value.value += 1 (04_1_IPC_and_Locking_cont.py).

CtrWorkers == 1..ctrCores

CtrIdle ==
    /\ ctrMode = "off" /\ ctrCores = 0 /\ max_count = 0 /\ value = 0 /\ lock = 0
    /\ ctrPc = <<>> /\ priv = <<>> /\ ctrLeft = <<>>

\* the first instruction of one increment
FirstPc(mode) == IF mode = "value" THEN "load" ELSE "acquire"

\* run_workers: the value is zero and ncores workers are started
InitCtr ==
    /\ ctrMode \in {"value", "locked", "rawlocked"}
    /\ ctrCores \in 1..MaxCtrCores
    /\ max_count \in 1..MaxCount
    /\ value = 0 /\ lock = 0
    /\ ctrPc = [w \in CtrWorkers |-> FirstPc(ctrMode)]
    /\ priv = [w \in CtrWorkers |-> 0]
    /\ ctrLeft = [w \in CtrWorkers |-> max_count]

\* a lock that lets every worker in
AcquireNoWait(w) ==
    /\ ctrPc[w] = "acquire"
    /\ lock' = w
    /\ ctrPc' = [ctrPc EXCEPT ![w] = "load"]
    /\ UNCHANGED <<ctrMode, ctrCores, max_count, value, priv, ctrLeft>>

\* with lock: a worker enters when the lock is free
Acquire(w) ==
    /\ ctrPc[w] = "acquire"
    /\ lock = 0
    /\ lock' = w
    /\ ctrPc' = [ctrPc EXCEPT ![w] = "load"]
    /\ UNCHANGED <<ctrMode, ctrCores, max_count, value, priv, ctrLeft>>

\* LOAD_ATTR: the value is read into the private copy (the lock of a Value is
\* taken and released around the read)
LoadAttr(w) ==
    /\ ctrPc[w] = "load"
    /\ priv' = [priv EXCEPT ![w] = value]
    /\ ctrPc' = [ctrPc EXCEPT ![w] = "add"]
    /\ UNCHANGED <<ctrMode, ctrCores, max_count, value, lock, ctrLeft>>

\* LOAD_CONST 1, INPLACE_ADD: the private copy is incremented
InplaceAdd(w) ==
    /\ ctrPc[w] = "add"
    /\ priv' = [priv EXCEPT ![w] = priv[w] + 1]
    /\ ctrPc' = [ctrPc EXCEPT ![w] = "store"]
    /\ UNCHANGED <<ctrMode, ctrCores, max_count, value, lock, ctrLeft>>

\* where a worker goes after its store (or its release)
AfterIncrement(w) == IF ctrLeft[w] = 1 THEN "done" ELSE FirstPc(ctrMode)

\* a store that increments the value it finds
StoreAttrFresh(w) ==
    /\ ctrPc[w] = "store"
    /\ value' = value + 1
    /\ ctrLeft' = [ctrLeft EXCEPT ![w] = ctrLeft[w] - 1]
    /\ ctrPc' = [ctrPc EXCEPT ![w] = IF ctrMode = "value" THEN AfterIncrement(w) ELSE "release"]
    /\ UNCHANGED <<ctrMode, ctrCores, max_count, lock, priv>>

\* STORE_ATTR: the private copy is written back (the lock of a Value is taken
\* and released around the write)
StoreAttr(w) ==
    /\ ctrPc[w] = "store"
    /\ value' = priv[w]
    /\ ctrLeft' = [ctrLeft EXCEPT ![w] = ctrLeft[w] - 1]
    /\ ctrPc' = [ctrPc EXCEPT ![w] = IF ctrMode = "value" THEN AfterIncrement(w) ELSE "release"]
    /\ UNCHANGED <<ctrMode, ctrCores, max_count, lock, priv>>

\* end of the with block: the lock is released
Release(w) ==
    /\ ctrPc[w] = "release"
    /\ lock' = 0
    /\ ctrPc' = [ctrPc EXCEPT ![w] = IF ctrLeft[w] = 0 THEN "done" ELSE "acquire"]
    /\ UNCHANGED <<ctrMode, ctrCores, max_count, value, priv, ctrLeft>>

----------------------------------------------------------------------------
\* The pipeline on queues that have a capacity: put blocks while the queue
\* is full.

\* the managed queues of the notebook: no maxsize
CapIdle == inCap = 0 /\ outCap = 0

\* queue.full(): maxsize > 0 and maxsize items on the queue
Full(q, cap) == cap > 0 /\ Len(q) >= cap

\* calculate_primes with the largest N, on queues of capacity 0..MaxCap
InitBounded ==
    /\ InitPipe
    /\ N = MaxN
    /\ inCap \in 0..MaxCap
    /\ outCap \in 0..MaxCap

FeedB == ~Full(input, inCap) /\ Feed
TerminateB == ~Full(input, inCap) /\ Terminate
WorkerPutB(w) == ~Full(output, outCap) /\ WorkerPut(w)

----------------------------------------------------------------------------
\* The test of the worker function: two chunks of numbers and None on the
\* input queue, one worker run to its end, the output queue terminated with
\* None and iterated with iter(output.get, None).

TestLists == SeqsUpTo(1..MaxElem, MaxTestLen)

\* 1., 2. the queues are allocated, the chunks and None are on the input queue
InitWorkerTest ==
    /\ N = 2 /\ chunksize = 1 /\ ncores = 1
    /\ dpc = "launch" /\ fed = 2 /\ nonePut = 1
    /\ input \in {<<ChunkItem(1, a), ChunkItem(2, b), None>> : a \in TestLists, b \in TestLists}
    /\ inPuts = input
    /\ output = <<>>
    /\ wstate = [w \in Workers |-> "NEW"]
    /\ cur = [w \in Workers |-> Idle]
    /\ results = <<>> /\ returned = <<>>
    /\ inGets = <<>> /\ outPuts = <<>> /\ outGets = <<>>
    /\ getCount = [w \in Workers |-> 0]
    /\ noneCount = [w \in Workers |-> 0]
    /\ putCount = [w \in Workers |-> 0]
    /\ takenBy = [k \in 1..2 |-> {}]

\* 3. launch the worker function on the queues
TestLaunch ==
    /\ dpc = "launch"
    /\ wstate' = [w \in Workers |-> "RUNNING"]
    /\ dpc' = "running"
    /\ UNCHANGED <<params, fed, nonePut, input, output, cur, results, returned>>
    /\ UNCHANGED histVars

\* 3. the worker has returned: terminate the output queue with None
TestTerminateOutput ==
    /\ dpc = "running"
    /\ \A w \in Workers : wstate[w] = "TERMINATED"
    /\ output' = QPut(output, None)
    /\ dpc' = "iter"
    /\ UNCHANGED <<params, fed, nonePut, input, wstate, cur, results, returned>>
    /\ UNCHANGED histVars

\* an iteration that keeps the newest batch first
TestIterGetPrepend ==
    /\ dpc = "iter"
    /\ output # <<>>
    /\ output' = QRest(output)
    /\ IF IsSentinel(QFront(output))
       THEN /\ returned' = chain([i \in 1..Len(results) |-> results[i].data])
            /\ dpc' = "collected"
            /\ UNCHANGED <<results, outGets>>
       ELSE /\ results' = <<QFront(output)>> \o results
            /\ outGets' = Append(outGets, QFront(output))
            /\ UNCHANGED <<dpc, returned>>
    /\ UNCHANGED <<params, fed, nonePut, input, wstate, cur>>
    /\ UNCHANGED <<inPuts, inGets, outPuts, getCount, noneCount, putCount, takenBy>>

\* 4. collect the results in a unified list: one step of iter(output.get, None),
\* and at None the batches chained
TestIterGet ==
    /\ dpc = "iter"
    /\ output # <<>>
    /\ output' = QRest(output)
    /\ IF IsSentinel(QFront(output))
       THEN /\ returned' = chain([i \in 1..Len(results) |-> results[i].data])
            /\ dpc' = "collected"
            /\ UNCHANGED <<results, outGets>>
       ELSE /\ results' = Append(results, QFront(output))
            /\ outGets' = Append(outGets, QFront(output))
            /\ UNCHANGED <<dpc, returned>>
    /\ UNCHANGED <<params, fed, nonePut, input, wstate, cur>>
    /\ UNCHANGED <<inPuts, inGets, outPuts, getCount, noneCount, putCount, takenBy>>

----------------------------------------------------------------------------
\* The sequence search of 06_1_Numba.py.

\* np.nonzero(m)[0]: the indices (from 0) of the non-zero elements, ascending
nonzero(m) == SelectSeq(PyRange(0, Len(m), 1), LAMBDA i : m[i + 1] # 0)

\* cor_size = data.size - seq.size + 1
cor_size(data, seq) == Len(data) - Len(seq) + 1

\* the inner loop on j for one i: matches[i] stays set while data[i+j] == seq[j]
RECURSIVE walk_sequence(_, _, _, _, _)
walk_sequence(data, seq, i, j, m) ==
    IF j >= Len(seq) THEN m
    ELSE walk_sequence(data, seq, i, j + 1, IF data[i + j + 1] = seq[j + 1] THEN m ELSE 0)

search_sequence_numba(data, seq) ==
    nonzero([k \in 1..cor_size(data, seq) |-> walk_sequence(data, seq, k - 1, 0, 1)])

\* a search in the slice of data that the chunk covers: a match must end
\* inside the chunk
search_sequence_numba2_split(data, seq, chunk) ==
    LET m  == [k \in 1..Len(chunk) |->
                IF chunk[k] + Len(seq) - 1 > chunk[Len(chunk)] THEN 0
                ELSE walk_sequence(data, seq, chunk[k], 0, 1)]
        nz == nonzero(m)
    IN  [k \in 1..Len(nz) |-> nz[k] + chunk[1]]

\* the matches on the index subrange chunk: np.nonzero(matches)[0] + chunk[0]
search_sequence_numba2(data, seq, chunk) ==
    LET m  == [k \in 1..Len(chunk) |-> walk_sequence(data, seq, chunk[k], 0, 1)]
        nz == nonzero(m)
    IN  [k \in 1..Len(nz) |-> nz[k] + chunk[1]]

\* chunks(range(cor_size), n)
SearchChunks == chunks(PyRange(0, cor_size(sdata, sseq), 1), sn)

Threads == {"t1", "t2"}

PrangeIdle ==
    /\ owner = <<>> /\ matches = <<>> /\ pres = <<>> /\ writers = <<>>
    /\ tk = <<>> /\ tj = <<>> /\ tph = <<>> /\ treg = <<>>

MpIdle == sn = 1 /\ seqres = <<>> /\ mpdone = 0 /\ mpres = <<>>

SearchIdle == sdata = <<>> /\ sseq = <<>> /\ spc = "off" /\ MpIdle /\ PrangeIdle

\* data and seq of digits, with cor_size >= 0
SearchArgs ==
    /\ sdata \in SeqsUpTo(0..MaxDigit, MaxData)
    /\ sseq \in SeqsUpTo(0..MaxDigit, MaxSeq) \ {<<>>}
    /\ cor_size(sdata, sseq) >= 0

\* the sequential search, then the search chunk by chunk
InitSearch ==
    /\ SearchArgs
    /\ sn \in 1..MaxChunkArg
    /\ spc = "numba"
    /\ seqres = <<>> /\ mpdone = 0 /\ mpres = <<>>
    /\ PrangeIdle

CallSearchNumba ==
    /\ spc = "numba"
    /\ seqres' = search_sequence_numba(sdata, sseq)
    /\ spc' = "chunks"
    /\ UNCHANGED <<sdata, sseq, sn, mpdone, mpres, owner, matches, tk, tj, tph, treg, writers, pres>>

\* search_sequence_multiprocessing: the next chunk is searched and its result
\* chained to the results of the chunks before it
CallSearchNumba2 ==
    /\ spc = "chunks"
    /\ mpdone < Len(SearchChunks)
    /\ mpres' = mpres \o search_sequence_numba2(sdata, sseq, SearchChunks[mpdone + 1])
    /\ mpdone' = mpdone + 1
    /\ UNCHANGED <<sdata, sseq, sn, spc, seqres, owner, matches, tk, tj, tph, treg, writers, pres>>

SearchReturn ==
    /\ spc = "chunks"
    /\ mpdone = Len(SearchChunks)
    /\ spc' = "done"
    /\ UNCHANGED <<sdata, sseq, sn, seqres, mpdone, mpres, owner, matches, tk, tj, tph, treg,
                   writers, pres>>

\* The parallel search: the iterations of the outer loop are shared out
\* between the threads by prange; inside an iteration every j reads
\* matches[i], data[i+j] and seq[j] and stores matches[i].

\* a prange that gives every iteration to every thread
OwnIdxAll(t) == PyRange(0, Len(owner), 1)

\* the iterations of thread t, ascending
OwnIdx(t) == SelectSeq(PyRange(0, Len(owner), 1), LAMBDA i : owner[i + 1] = t)

\* the iteration thread t is in
CurIdx(t) == OwnIdx(t)[tk[t] + 1]

InitPrange ==
    /\ SearchArgs
    /\ MpIdle
    /\ spc = "prange"
    /\ owner \in [1..cor_size(sdata, sseq) -> Threads]
    /\ matches = [k \in 1..cor_size(sdata, sseq) |-> 1]
    /\ writers = [k \in 1..cor_size(sdata, sseq) |-> {}]
    /\ tk = [t \in Threads |-> 0]
    /\ tj = [t \in Threads |-> 0]
    /\ tph = [t \in Threads |-> "load"]
    /\ treg = [t \in Threads |-> 1]
    /\ pres = <<>>

\* thread t reads matches[i]
PrangeLoad(t) ==
    /\ spc = "prange"
    /\ tk[t] < Len(OwnIdx(t))
    /\ tph[t] = "load"
    /\ treg' = [treg EXCEPT ![t] = matches[CurIdx(t) + 1]]
    /\ tph' = [tph EXCEPT ![t] = "store"]
    /\ UNCHANGED <<sdata, sseq, sn, spc, seqres, mpdone, mpres, owner, matches, tk, tj,
                   writers, pres>>

\* thread t stores matches[i] and goes to the next j, or to its next iteration
PrangeStore(t) ==
    /\ spc = "prange"
    /\ tk[t] < Len(OwnIdx(t))
    /\ tph[t] = "store"
    /\ matches' = [matches EXCEPT ![CurIdx(t) + 1] =
                      IF sdata[CurIdx(t) + tj[t] + 1] = sseq[tj[t] + 1] THEN treg[t] ELSE 0]
    /\ writers' = [writers EXCEPT ![CurIdx(t) + 1] = @ \cup {t}]
    /\ tph' = [tph EXCEPT ![t] = "load"]
    /\ IF tj[t] + 1 < Len(sseq)
       THEN tj' = [tj EXCEPT ![t] = tj[t] + 1] /\ UNCHANGED tk
       ELSE tj' = [tj EXCEPT ![t] = 0] /\ tk' = [tk EXCEPT ![t] = tk[t] + 1]
    /\ UNCHANGED <<sdata, sseq, sn, spc, seqres, mpdone, mpres, owner, treg, pres>>

\* every thread has finished: return np.nonzero(matches)[0]
PrangeReturn ==
    /\ spc = "prange"
    /\ \A t \in Threads : tk[t] = Len(OwnIdx(t))
    /\ pres' = nonzero(matches)
    /\ spc' = "done"
    /\ UNCHANGED <<sdata, sseq, sn, seqres, mpdone, mpres, owner, matches, tk, tj, tph, treg,
                   writers>>

----------------------------------------------------------------------------
\* The queue of failures: pool.starmap(multiple_output_method, ...) on a
\* Pool(2), then the drain loop (02_3_MultiProcessing_tutorial.py).

FailIdle ==
    /\ vmcalls = <<>> /\ callState = <<>> /\ queue_for_failures = <<>>
    /\ failed_vms = <<>> /\ fpc = "off"

Calls == 1..Len(vmcalls)

\* the calls a worker of the pool is running
InFlight == {k \in Calls : callState[k] \in {"running", "put"}}

\* the first calls of the list: test_vm_1, test_vm_2, ...
InitFailures ==
    /\ vmcalls \in {[k \in 1..n |-> k] : n \in 1..MaxCalls}
    /\ callState = [k \in Calls |-> "todo"]
    /\ queue_for_failures = <<>>
    /\ failed_vms = <<>>
    /\ fpc = "starmap"

\* a worker of the pool that is free takes a call
CallStart(k) ==
    /\ fpc = "starmap"
    /\ callState[k] = "todo"
    /\ Cardinality(InFlight) < PoolSize
    /\ callState' = [callState EXCEPT ![k] = "running"]
    /\ UNCHANGED <<vmcalls, queue_for_failures, failed_vms, fpc>>

\* a success that is stored on the queue as well
ReturnTruePut(k) ==
    /\ callState[k] = "running"
    /\ queue_for_failures' = QPut(queue_for_failures, vmcalls[k])
    /\ callState' = [callState EXCEPT ![k] = "True"]
    /\ UNCHANGED <<vmcalls, failed_vms, fpc>>

\* randint(0, 1) is 1: return True
ReturnTrue(k) ==
    /\ callState[k] = "running"
    /\ callState' = [callState EXCEPT ![k] = "True"]
    /\ UNCHANGED <<vmcalls, queue_for_failures, failed_vms, fpc>>

\* randint(0, 1) is 0: fail_queue.put(vm_name)
FailPut(k) ==
    /\ callState[k] = "running"
    /\ queue_for_failures' = QPut(queue_for_failures, vmcalls[k])
    /\ callState' = [callState EXCEPT ![k] = "put"]
    /\ UNCHANGED <<vmcalls, failed_vms, fpc>>

\* return None
ReturnNone(k) ==
    /\ callState[k] = "put"
    /\ callState' = [callState EXCEPT ![k] = "None"]
    /\ UNCHANGED <<vmcalls, queue_for_failures, failed_vms, fpc>>

\* starmap returns when every call has returned
StarmapReturn ==
    /\ fpc = "starmap"
    /\ \A k \in Calls : callState[k] \in {"True", "None"}
    /\ fpc' = "drain"
    /\ UNCHANGED <<vmcalls, callState, queue_for_failures, failed_vms>>

\* while not queue_for_failures.empty(): failed_vms.append(queue_for_failures.get())
DrainGet ==
    /\ fpc = "drain"
    /\ queue_for_failures # <<>>
    /\ failed_vms' = Append(failed_vms, QFront(queue_for_failures))
    /\ queue_for_failures' = QRest(queue_for_failures)
    /\ UNCHANGED <<vmcalls, callState, fpc>>

\* the queue is empty: the loop ends
DrainEnd ==
    /\ fpc = "drain"
    /\ queue_for_failures = <<>>
    /\ fpc' = "done"
    /\ UNCHANGED <<vmcalls, callState, queue_for_failures, failed_vms>>

----------------------------------------------------------------------------
\* solution2app (project-scripts/prepare-notebooks.py).  A string is the
\* sequence of its pieces; the pieces are os.sep, two words and the two
\* suffixes, none of which is part of, or overlaps, another.

Sep == "/"
Pieces == {Sep, "Solutions", "x", "-sol.qmd"}

\* filepath.split(os.sep)
RECURSIVE split(_)
split(str) ==
    IF \A i \in 1..Len(str) : str[i] # Sep THEN <<str>>
    ELSE LET i == CHOOSE i \in 1..Len(str) :
                      str[i] = Sep /\ \A j \in 1..(i - 1) : str[j] # Sep
         IN  <<SubSeq(str, 1, i - 1)>> \o split(SubSeq(str, i + 1, Len(str)))

\* os.path.join(a, *p): the loop over the components after the first
RECURSIVE join_loop(_, _)
join_loop(path, p) ==
    IF p = <<>> THEN path
    ELSE IF Head(p) # <<>> /\ Head(p)[1] = Sep THEN join_loop(Head(p), Tail(p))
    ELSE IF path = <<>> \/ path[Len(path)] = Sep THEN join_loop(path \o Head(p), Tail(p))
    ELSE join_loop(path \o <<Sep>> \o Head(p), Tail(p))

join(args) == join_loop(Head(args), Tail(args))

\* file_name.endswith("-sol.qmd")
endswith_sol(name) == name # <<>> /\ name[Len(name)] = "-sol.qmd"

\* file_name.replace("-sol.qmd", ".qmd"): every occurrence is replaced
replace_sol(name) == [i \in 1..Len(name) |-> IF name[i] = "-sol.qmd" THEN ".qmd" ELSE name[i]]

\* the value None
NoPath == <<"None">>

solution2app(str) ==
    LET path_parts == split(str)
        n          == Len(path_parts)
    IN  IF n > 1 /\ path_parts[n - 1] = <<"Solutions">>
        THEN LET file_name == IF endswith_sol(path_parts[n])
                              THEN replace_sol(path_parts[n])
                              ELSE path_parts[n]
             IN  join(SubSeq(path_parts, 1, n - 2) \o <<(<<"Applications">>), file_name>>)
        ELSE NoPath

AppIdle == filepath = <<>> /\ appfile = <<>> /\ apc = "off"

InitApp ==
    /\ filepath \in SeqsUpTo(Pieces, MaxPath)
    /\ appfile = <<>>
    /\ apc = "call"

CallSolution2app ==
    /\ apc = "call"
    /\ appfile' = solution2app(filepath)
    /\ apc' = "ret"
    /\ UNCHANGED filepath

ExtIdle == CtrIdle /\ CapIdle /\ SearchIdle /\ FailIdle /\ AppIdle

----------------------------------------------------------------------------
\* Specifications.

Init == InitPipe /\ PrimeIdle /\ GenIdle /\ ExtIdle

Next ==
    \/ StartWorkers /\ UNCHANGED <<primeVars, genVars, extVars>>
    \/ Feed /\ UNCHANGED <<primeVars, genVars, extVars>>
    \/ Terminate /\ UNCHANGED <<primeVars, genVars, extVars>>
    \/ WaitWorkers /\ UNCHANGED <<primeVars, genVars, extVars>>
    \/ Collect /\ UNCHANGED <<primeVars, genVars, extVars>>
    \/ Return /\ UNCHANGED <<primeVars, genVars, extVars>>
    \/ \E w \in Workers : WorkerGet(w) /\ UNCHANGED <<primeVars, genVars, extVars>>
    \/ \E w \in Workers : WorkerPut(w) /\ UNCHANGED <<primeVars, genVars, extVars>>

Spec == Init /\ [][Next]_vars

\* The main process and every worker are processes of their own: each one
\* that can take a step eventually takes it.
FairSpec ==
    /\ Init /\ [][Next]_vars
    /\ WF_vars(Dispatcher /\ UNCHANGED <<primeVars, genVars, extVars>>)
    /\ \A w \in 1..MaxCores : WF_vars(w \in Workers /\ Worker(w) /\ UNCHANGED <<primeVars, genVars, extVars>>)

\* calculate_primes with N = 20 (chunk sizes giving at most MaxChunks + 1 chunks)
InitTwenty ==
    /\ N = 20
    /\ chunksize \in 1..N
    /\ NChunks <= MaxChunks + 1
    /\ ncores \in 1..MaxCores
    /\ dpc = "start" /\ fed = 0 /\ nonePut = 0
    /\ input = <<>> /\ output = <<>>
    /\ wstate = [w \in Workers |-> "NEW"]
    /\ cur = [w \in Workers |-> Idle]
    /\ results = <<>> /\ returned = <<>>
    /\ inPuts = <<>> /\ inGets = <<>> /\ outPuts = <<>> /\ outGets = <<>>
    /\ getCount = [w \in Workers |-> 0]
    /\ noneCount = [w \in Workers |-> 0]
    /\ putCount = [w \in Workers |-> 0]
    /\ takenBy = [k \in 1..NChunks |-> {}]

InitT == InitTwenty /\ PrimeIdle /\ GenIdle /\ ExtIdle
SpecTwenty == InitT /\ [][Next]_vars

\* calculate_primes called with any chunksize >= -1 and any ncores >= 0
InitArgs ==
    /\ N \in 2..MaxN
    /\ chunksize \in (0 - 1)..N
    /\ NChunks <= MaxChunks
    /\ ncores \in 0..MaxCores
    /\ dpc = "start" /\ fed = 0 /\ nonePut = 0
    /\ input = <<>> /\ output = <<>>
    /\ wstate = [w \in Workers |-> "NEW"]
    /\ cur = [w \in Workers |-> Idle]
    /\ results = <<>> /\ returned = <<>>
    /\ inPuts = <<>> /\ inGets = <<>> /\ outPuts = <<>> /\ outGets = <<>>
    /\ getCount = [w \in Workers |-> 0]
    /\ noneCount = [w \in Workers |-> 0]
    /\ putCount = [w \in Workers |-> 0]
    /\ takenBy = [k \in 1..NChunks |-> {}]

NextArgs ==
    \/ Next
    \/ FeedRaise /\ UNCHANGED <<primeVars, genVars, extVars>>

InitA == InitArgs /\ PrimeIdle /\ GenIdle /\ ExtIdle
SpecArgs == InitA /\ [][NextArgs]_vars

\* calculate_primes with workers that may raise while they process a chunk
NextFault ==
    \/ Next
    \/ \E w \in Workers : WorkerRaise(w) /\ UNCHANGED <<primeVars, genVars, extVars>>
    \/ WaitFailed /\ UNCHANGED <<primeVars, genVars, extVars>>

SpecFault == Init /\ [][NextFault]_vars

FairSpecFault ==
    /\ Init /\ [][NextFault]_vars
    /\ WF_vars((Dispatcher \/ WaitFailed) /\ UNCHANGED <<primeVars, genVars, extVars>>)
    /\ \A w \in 1..MaxCores : WF_vars(w \in Workers /\ Worker(w) /\ UNCHANGED <<primeVars, genVars, extVars>>)

InitP == InitPrime /\ GenIdle /\ PipeIdle /\ ExtIdle
NextP == CallCheckPrime /\ UNCHANGED <<genVars, pipeVars, histVars, extVars>>
SpecPrime == InitP /\ [][NextP]_vars

InitG == InitGen /\ PrimeIdle /\ PipeIdle /\ ExtIdle
NextG ==
    \/ GenStart /\ UNCHANGED <<primeVars, pipeVars, histVars, extVars>>
    \/ GenYield /\ UNCHANGED <<primeVars, pipeVars, histVars, extVars>>
    \/ GenStop /\ UNCHANGED <<primeVars, pipeVars, histVars, extVars>>
SpecChunks == InitG /\ [][NextG]_vars

\* run_workers in the three variants of the notebook
InitC == InitCtr /\ CapIdle /\ SearchIdle /\ FailIdle /\ AppIdle /\ PrimeIdle /\ GenIdle /\ PipeIdle
NextC ==
    \/ \E w \in CtrWorkers : Acquire(w) /\ UNCHANGED <<primeVars, genVars, pipeVars, histVars, capVars, srchVars, failVars, appVars>>
    \/ \E w \in CtrWorkers : LoadAttr(w) /\ UNCHANGED <<primeVars, genVars, pipeVars, histVars, capVars, srchVars, failVars, appVars>>
    \/ \E w \in CtrWorkers : InplaceAdd(w) /\ UNCHANGED <<primeVars, genVars, pipeVars, histVars, capVars, srchVars, failVars, appVars>>
    \/ \E w \in CtrWorkers : StoreAttr(w) /\ UNCHANGED <<primeVars, genVars, pipeVars, histVars, capVars, srchVars, failVars, appVars>>
    \/ \E w \in CtrWorkers : Release(w) /\ UNCHANGED <<primeVars, genVars, pipeVars, histVars, capVars, srchVars, failVars, appVars>>
SpecCounter == InitC /\ [][NextC]_vars

\* calculate_primes on queues with a capacity
InitB == InitBounded /\ CtrIdle /\ SearchIdle /\ FailIdle /\ AppIdle /\ PrimeIdle /\ GenIdle
NextB ==
    \/ StartWorkers /\ UNCHANGED <<primeVars, genVars, extVars>>
    \/ FeedB /\ UNCHANGED <<primeVars, genVars, extVars>>
    \/ TerminateB /\ UNCHANGED <<primeVars, genVars, extVars>>
    \/ WaitWorkers /\ UNCHANGED <<primeVars, genVars, extVars>>
    \/ Collect /\ UNCHANGED <<primeVars, genVars, extVars>>
    \/ Return /\ UNCHANGED <<primeVars, genVars, extVars>>
    \/ \E w \in Workers : WorkerGet(w) /\ UNCHANGED <<primeVars, genVars, extVars>>
    \/ \E w \in Workers : WorkerPutB(w) /\ UNCHANGED <<primeVars, genVars, extVars>>
SpecBounded == InitB /\ [][NextB]_vars

\* the test of the worker function
InitW == InitWorkerTest /\ PrimeIdle /\ GenIdle /\ ExtIdle
NextW ==
    \/ TestLaunch /\ UNCHANGED <<primeVars, genVars, extVars>>
    \/ \E w \in Workers : WorkerGet(w) /\ UNCHANGED <<primeVars, genVars, extVars>>
    \/ \E w \in Workers : WorkerPut(w) /\ UNCHANGED <<primeVars, genVars, extVars>>
    \/ TestTerminateOutput /\ UNCHANGED <<primeVars, genVars, extVars>>
    \/ TestIterGet /\ UNCHANGED <<primeVars, genVars, extVars>>
SpecWorkerTest == InitW /\ [][NextW]_vars

\* the sequence search, whole and chunk by chunk
InitS == InitSearch /\ CtrIdle /\ CapIdle /\ FailIdle /\ AppIdle /\ PrimeIdle /\ GenIdle /\ PipeIdle
NextS ==
    \/ CallSearchNumba /\ UNCHANGED <<primeVars, genVars, pipeVars, histVars, ctrVars, capVars, failVars, appVars>>
    \/ CallSearchNumba2 /\ UNCHANGED <<primeVars, genVars, pipeVars, histVars, ctrVars, capVars, failVars, appVars>>
    \/ SearchReturn /\ UNCHANGED <<primeVars, genVars, pipeVars, histVars, ctrVars, capVars, failVars, appVars>>
SpecSearch == InitS /\ [][NextS]_vars

\* the parallel sequence search
InitR == InitPrange /\ CtrIdle /\ CapIdle /\ FailIdle /\ AppIdle /\ PrimeIdle /\ GenIdle /\ PipeIdle
NextR ==
    \/ \E t \in Threads : PrangeLoad(t) /\ UNCHANGED <<primeVars, genVars, pipeVars, histVars, ctrVars, capVars, failVars, appVars>>
    \/ \E t \in Threads : PrangeStore(t) /\ UNCHANGED <<primeVars, genVars, pipeVars, histVars, ctrVars, capVars, failVars, appVars>>
    \/ PrangeReturn /\ UNCHANGED <<primeVars, genVars, pipeVars, histVars, ctrVars, capVars, failVars, appVars>>
SpecPrange == InitR /\ [][NextR]_vars

\* starmap on the queue of failures, then the drain loop; every call that
\* runs and the main process go on
InitF == InitFailures /\ CtrIdle /\ CapIdle /\ SearchIdle /\ AppIdle /\ PrimeIdle /\ GenIdle /\ PipeIdle
NextF ==
    \/ \E k \in Calls : CallStart(k) /\ UNCHANGED <<primeVars, genVars, pipeVars, histVars, ctrVars, capVars, srchVars, appVars>>
    \/ \E k \in Calls : ReturnTrue(k) /\ UNCHANGED <<primeVars, genVars, pipeVars, histVars, ctrVars, capVars, srchVars, appVars>>
    \/ \E k \in Calls : FailPut(k) /\ UNCHANGED <<primeVars, genVars, pipeVars, histVars, ctrVars, capVars, srchVars, appVars>>
    \/ \E k \in Calls : ReturnNone(k) /\ UNCHANGED <<primeVars, genVars, pipeVars, histVars, ctrVars, capVars, srchVars, appVars>>
    \/ StarmapReturn /\ UNCHANGED <<primeVars, genVars, pipeVars, histVars, ctrVars, capVars, srchVars, appVars>>
    \/ DrainGet /\ UNCHANGED <<primeVars, genVars, pipeVars, histVars, ctrVars, capVars, srchVars, appVars>>
    \/ DrainEnd /\ UNCHANGED <<primeVars, genVars, pipeVars, histVars, ctrVars, capVars, srchVars, appVars>>
FairSpecFailures == InitF /\ [][NextF]_vars /\ WF_vars(NextF)

\* solution2app called on one path
InitAp == InitApp /\ CtrIdle /\ CapIdle /\ SearchIdle /\ FailIdle /\ PrimeIdle /\ GenIdle /\ PipeIdle
NextAp == CallSolution2app /\ UNCHANGED <<primeVars, genVars, pipeVars, histVars, ctrVars, capVars, srchVars, failVars>>
SpecApp == InitAp /\ [][NextAp]_vars

----------------------------------------------------------------------------
\* Properties.

\* the reference: n is prime
IsPrime(n) == n >= 2 /\ \A d \in 2..(n - 1) : n % d # 0

\* number of occurrences of x in the sequence s
Count(s, x) == Cardinality({i \in 1..Len(s) : s[i] = x})

IsPrefix(s, t) == Len(s) <= Len(t) /\ SubSeq(t, 1, Len(s)) = s

CeilDiv(a, b) == (a + b - 1) \div b

\* C1: when calculate_primes has returned, the returned list holds every prime
\* p with 2 <= p < N exactly once and nothing else.
C1_ReturnsExactlyThePrimes ==
    dpc = "done" =>
        \A p \in 0..MaxN : Count(returned, p) = (IF p < N /\ IsPrime(p) THEN 1 ELSE 0)

\* C2: for every n >= 2, check_prime(n) returns True if and only if n is prime.
C2_CheckPrimeIffPrime ==
    (cpc = "ret" /\ cand >= 2) => (cret <=> IsPrime(cand))

\* C3: for n >= 1 the chunks yielded so far, concatenated in generation order,
\* are the elements of lst consumed so far, and all of lst once the generator
\* has returned.
C3_ChunksConcatenate ==
    (gn >= 1 /\ gpc \in {"running", "done"}) =>
        /\ chain(yielded) = SubSeq(glst, 1, Min(gidx * gn, Len(glst)))
        /\ gpc = "done" => chain(yielded) = glst

C3_Witness ==
    gpc = "done" /\ gn = 2 /\ Len(glst) = 3 /\ Len(yielded) = 2 /\ glst[1] # glst[3]

\* C4: for n >= 1 no empty chunk is ever yielded, and when the generator has
\* returned it has yielded ceil(len(lst) / n) chunks, all of length n but the
\* last, whose length is between 1 and n; an empty lst yields no chunk.
C4_ChunkCountAndSizes ==
    gn >= 1 =>
        /\ \A k \in 1..Len(yielded) : Len(yielded[k]) \in 1..gn
        /\ gpc = "done" =>
            /\ Len(yielded) = CeilDiv(Len(glst), gn)
            /\ \A k \in 1..(Len(yielded) - 1) : Len(yielded[k]) = gn
            /\ glst = <<>> => yielded = <<>>

C4_Witness ==
    gpc = "done" /\ gn = 2 /\ Len(glst) = 4 /\ Len(yielded) = 2

\* the chunks worker w dequeued
ChunksOf(w) == {k \in 1..NChunks : w \in takenBy[k]}

\* C5: exactly ncores None are put on the input queue in total, every worker
\* gets exactly one of them, and a worker that got its None performs no
\* further get.
C5_OneSentinelPerWorker ==
    /\ [](/\ nonePut <= ncores
          /\ Count(inPuts, None) = nonePut
          /\ dpc \in {"wait", "collect", "done"} => Count(inPuts, None) = ncores
          /\ \A w \in Workers :
                /\ noneCount[w] = (IF wstate[w] = "TERMINATED" THEN 1 ELSE 0)
                /\ getCount[w] = Cardinality(ChunksOf(w)) + noneCount[w]
          /\ Count(inGets, None) <= ncores
          /\ dpc = "done" =>
                (Count(inGets, None) = ncores /\ \A w \in Workers : noneCount[w] = 1))
    /\ [][\A w \in Workers :
            wstate[w] = "TERMINATED" => getCount'[w] = getCount[w]]_vars

C5_Witness ==
    /\ dpc = "done" /\ ncores = 2
    /\ \A w \in Workers : wstate[w] = "TERMINATED" /\ getCount[w] >= 2

\* C6: with the main process and every worker scheduled fairly, every run
\* reaches the state where all workers are TERMINATED and calculate_primes
\* has returned; a worker that got no chunk got only its None and put nothing.
C6_Terminates ==
    /\ <>(dpc = "done" /\ \A w \in Workers : wstate[w] = "TERMINATED")
    /\ [](\A w \in Workers :
            (wstate[w] = "TERMINATED" /\ ChunksOf(w) = {}) =>
                (getCount[w] = 1 /\ putCount[w] = 0 /\
                 \A i \in 1..Len(outPuts) : outPuts[i].by # w))

C6_Witness ==
    /\ dpc = "done" /\ ncores > NChunks
    /\ \E w \in Workers : wstate[w] = "TERMINATED" /\ getCount[w] = 1 /\ putCount[w] = 0

\* where chunk k is: on the input queue, held by a worker, or turned into a batch
OnInput(k)   == {i \in 1..Len(input) : input[i].id = k}
HeldBy(k)    == {w \in Workers : cur[w].id = k}
BatchesOf(k) == {i \in 1..Len(outPuts) : outPuts[i].id = k}

\* C7: every chunk put on the input queue is at every moment in exactly one
\* place (the queue, one worker, or its one batch), is dequeued by one worker
\* only, and its batch is put by that worker; when calculate_primes has
\* returned every chunk has exactly one batch.
C7_OneWorkerOneBatchPerChunk ==
    /\ \A k \in 1..NChunks :
        /\ Cardinality(OnInput(k)) + Cardinality(HeldBy(k)) + Cardinality(BatchesOf(k))
              = (IF k <= fed THEN 1 ELSE 0)
        /\ Cardinality(takenBy[k]) <= 1
        /\ Cardinality({i \in 1..Len(inGets) : inGets[i].id = k}) = Cardinality(takenBy[k])
        /\ \A i \in BatchesOf(k) : outPuts[i].by \in takenBy[k]
        /\ \A w \in HeldBy(k) : w \in takenBy[k]
    /\ dpc = "done" =>
        \A k \in 1..NChunks :
            Cardinality(BatchesOf(k)) = 1 /\ Cardinality({i \in 1..Len(results) : results[i].id = k}) = 1

C7_Witness ==
    /\ dpc = "done" /\ NChunks >= 3 /\ ncores = 2
    /\ \E k1, k2 \in 1..NChunks : takenBy[k1] = {1} /\ takenBy[k2] = {2}

\* C8: a RUNNING worker that holds a chunk puts exactly one batch, the elements
\* of the chunk that pass check_prime, and stays RUNNING; a worker becomes
\* TERMINATED only by getting None; a TERMINATED worker does nothing more.
C8_WorkerStateMachine ==
    [][\A w \in Workers :
        /\ (wstate[w] = "RUNNING" /\ wstate'[w] = "TERMINATED") =>
              (input # <<>> /\ Head(input) = None /\ input' = Tail(input) /\ cur[w] = Idle)
        /\ wstate[w] = "TERMINATED" =>
              (wstate'[w] = "TERMINATED" /\ cur'[w] = cur[w] /\
               getCount'[w] = getCount[w] /\ putCount'[w] = putCount[w])
        /\ (cur[w] = Idle /\ cur'[w] # Idle) =>
              (wstate[w] = "RUNNING" /\ wstate'[w] = "RUNNING" /\
               cur'[w] = Head(input) /\ cur'[w].kind = "chunk" /\ output' = output)
        /\ (cur[w] # Idle /\ cur'[w] # cur[w]) =>
              (cur'[w] = Idle /\ wstate'[w] = "RUNNING" /\ putCount'[w] = putCount[w] + 1 /\
               output' = Append(output,
                   [id |-> cur[w].id, by |-> w,
                    data |-> SelectSeq(cur[w].data, check_prime)]))
        /\ putCount'[w] # putCount[w] => (cur[w] # Idle /\ cur'[w] = Idle)
        /\ (cur[w] # Idle /\ cur'[w] = cur[w]) => wstate'[w] = "RUNNING"
      ]_vars

C8_Witness ==
    \E w \in Workers : wstate[w] = "TERMINATED" /\ putCount[w] >= 2 /\
        \E i \in 1..Len(outPuts) : outPuts[i].by = w /\ outPuts[i].data # <<>>

C10_DrainsAllBatches ==
    /\ [](dpc = "done" =>
            /\ Len(outGets) = NChunks /\ Len(results) = NChunks
            /\ output = <<>>
            /\ Len(outPuts) = NChunks
            /\ \A w \in Workers : cur[w] = Idle)
    /\ [][dpc = "done" => (outPuts' = outPuts /\ output' = output)]_vars

C10_Witness ==
    dpc = "done" /\ NChunks >= 3 /\ Len(outGets) = NChunks /\ ncores = 2

\* the elements of a sequence
SetOf(s) == {s[i] : i \in 1..Len(s)}

\* the positions of the returned list that hold an element of chunk k
PosOf(k) == {i \in 1..Len(returned) : returned[i] \in SetOf(AllChunks[k])}

\* the lists of a list of lists, one after the other
RECURSIVE Concat(_)
Concat(ll) == IF ll = <<>> THEN <<>> ELSE Head(ll) \o Concat(Tail(ll))

\* C11: in the returned list the elements kept from one chunk are next to each
\* other and in the order they have in the chunk (ascending), whatever the
\* order in which the batches were drained.
C11_ChunkResultsContiguous ==
    dpc = "done" =>
        \A k \in 1..NChunks :
            /\ \A i, j \in PosOf(k) : \A m \in i..j : m \in PosOf(k)
            /\ \A i, j \in PosOf(k) : i < j => returned[i] < returned[j]
            /\ {returned[i] : i \in PosOf(k)} = SetOf(SelectSeq(AllChunks[k], check_prime))
            /\ Cardinality(PosOf(k)) = Len(SelectSeq(AllChunks[k], check_prime))

C11_Witness ==
    /\ dpc = "done" /\ Len(results) >= 2
    /\ results[1].id > results[2].id
    /\ \E i \in 1..Len(results) : Len(results[i].data) >= 2

\* C12: the returned list is the batches chained in the order in which they
\* were put on the output queue; it need not be ascending.
C12_OrderedBySubmission ==
    dpc = "done" =>
        /\ results = outPuts
        /\ returned = Concat([i \in 1..Len(outPuts) |-> outPuts[i].data])

C12_Witness ==
    /\ dpc = "done" /\ ncores = 2
    /\ \E i, j \in 1..Len(returned) : i < j /\ returned[i] > returned[j]

\* C13: the set of values returned depends on the arguments only, not on the
\* interleaving: every run returns the elements of range(1, N) that pass
\* check_prime.
C13_SetDependsOnArgumentsOnly ==
    dpc = "done" => SetOf(returned) = {x \in 1..(N - 1) : check_prime(x)}

C13_Witness ==
    /\ dpc = "done" /\ ncores = 2 /\ NChunks = 3
    /\ outPuts[1].id = 2 /\ outPuts[1].by = 2

\* C14: for a fixed N the set returned is the same for every chunksize and
\* ncores, and for N = 20 it is {2, 3, 5, 7, 11, 13, 17, 19}.
C14_SameSetForTwenty ==
    dpc = "done" =>
        /\ SetOf(returned) = {x \in 1..(N - 1) : check_prime(x)}
        /\ N = 20 => SetOf(returned) = {2, 3, 5, 7, 11, 13, 17, 19}

\* C15: with N = 2 the returned list is empty and with N = 3 it is [2].
C15_Boundaries ==
    dpc = "done" =>
        /\ N = 2 => returned = <<>>
        /\ N = 3 => returned = <<2>>

\* C16: with n <= 0 the generator never yields a chunk and never ends without
\* an error on a non-empty list.
C16_NonPositiveSizeFails ==
    (gn <= 0 /\ glst # <<>>) => (yielded = <<>> /\ gpc # "done")

\* C17: called with chunksize <= 0 or ncores = 0, calculate_primes ends in the
\* error state with no worker started and no item put on either queue.
C17_InvalidArgumentsRejected ==
    ((chunksize <= 0 \/ ncores = 0) /\ dpc # "start") =>
        /\ dpc = "error"
        /\ \A w \in Workers : wstate[w] = "NEW"
        /\ inPuts = <<>> /\ outPuts = <<>>

\* the main process has returned, has raised, or waits for a batch that no
\* worker is left to put
MainFinal ==
    \/ dpc \in {"done", "raised"}
    \/ dpc = "collect" /\ output = <<>> /\ Len(results) < NChunks

\* C18: when a worker has raised while processing a chunk, calculate_primes
\* ends by raising the failure of the worker (the WorkerFailure state): it
\* neither blocks for ever nor returns a list.
C18_WorkerFailureReported ==
    ((\E w \in Workers : wstate[w] = "FAILED") /\ MainFinal) =>
        dpc \in {"WorkerFailure", "raised"}

\* the drain waits for a batch and every worker has finished
DrainStuck == dpc = "collect" /\ output = <<>> /\ Len(results) < NChunks

\* C19: when the drain waits for a number of batches that cannot be reached,
\* the main process eventually ends in the Timeout state.
C19_DrainTimesOut == [](DrainStuck => <>(dpc = "Timeout"))

\* C20: a chunk on the input queue or in a worker is the chunk the generator
\* made, a batch on the output queue or collected is the batch that was put,
\* and a step of a worker changes nothing but the two queues and the state of
\* that worker.
C20_QueuesOnlySharedState ==
    /\ [](/\ \A i \in 1..Len(input) :
                input[i] # None => input[i] = ChunkItem(input[i].id, AllChunks[input[i].id])
          /\ \A w \in Workers :
                cur[w] # Idle => cur[w] = ChunkItem(cur[w].id, AllChunks[cur[w].id])
          /\ \A i \in 1..Len(inGets) : \E j \in 1..Len(inPuts) : inPuts[j] = inGets[i]
          /\ \A i \in 1..Len(output) : \E j \in 1..Len(outPuts) : outPuts[j] = output[i]
          /\ \A i \in 1..Len(results) : \E j \in 1..Len(outPuts) : outPuts[j] = results[i]
          /\ \A i \in 1..Len(outPuts) :
                outPuts[i].data = SelectSeq(AllChunks[outPuts[i].id], check_prime))
    /\ [][(getCount' # getCount \/ putCount' # putCount) =>
            /\ UNCHANGED <<N, chunksize, ncores, dpc, fed, nonePut, results, returned>>
            /\ \A v \in Workers :
                  (getCount'[v] = getCount[v] /\ putCount'[v] = putCount[v]) =>
                      (wstate'[v] = wstate[v] /\ cur'[v] = cur[v])]_vars

C20_Witness ==
    /\ ncores = 2 /\ Len(results) >= 2
    /\ \A w \in Workers : putCount[w] >= 1

\* every worker of run_workers has done its max_count increments
CtrDone == ctrMode # "off" /\ \A w \in CtrWorkers : ctrPc[w] = "done"

\* C21: with the lock of the Value held only during the load and only during
\* the store, a store writes the private copy of the worker whatever the
\* value has become since the load, so increments of other workers are lost
\* and the final value lies between 1 and ncores * max_count; it can be
\* strictly below ncores * max_count (the witness).
C21_LostUpdate ==
    /\ []((ctrMode = "value" /\ CtrDone) => value \in 1..(ctrCores * max_count))
    /\ []((ctrMode = "value" /\ ctrCores = 1 /\ CtrDone) => value = max_count)
    /\ [][\A w \in CtrWorkers :
            (ctrMode = "value" /\ ctrPc[w] = "store" /\ ctrPc'[w] # "store") =>
                value' = priv[w]]_vars

C21_Witness ==
    /\ ctrMode = "value" /\ CtrDone /\ ctrCores >= 2
    /\ value < ctrCores * max_count

\* C22: with one lock held across the load, the add and the store, at most
\* one worker is between its load and its release and the final value is
\* ncores * N for every interleaving, with a Value and with a RawValue.
C22_LockedCounterExact ==
    (ctrMode \in {"locked", "rawlocked"}) =>
        /\ Cardinality({w \in CtrWorkers : ctrPc[w] \in {"load", "add", "store", "release"}}) <= 1
        /\ CtrDone => value = ctrCores * max_count

C22_Witness ==
    /\ ctrMode = "rawlocked" /\ CtrDone
    /\ ctrCores >= 2 /\ max_count >= 2

\* the run has not returned and neither the main process nor a worker can
\* take a step
Deadlocked == dpc # "done" /\ ~ENABLED NextB

C24_NoChunkLeftBehind ==
    /\ (\E w \in Workers : wstate[w] = "TERMINATED") =>
          \A i \in 1..Len(input) : input[i] = None
    /\ dpc = "done" => (input = <<>> /\ output = <<>>)

C24_Witness ==
    /\ \E w \in Workers : wstate[w] = "TERMINATED"
    /\ \E w \in Workers : wstate[w] = "RUNNING" /\ cur[w] # Idle
    /\ input # <<>>

\* s is in ascending order
Ascending(s) == \A i, j \in 1..Len(s) : i < j => s[i] <= s[j]

\* the chunks put on the input queue, one after the other
InputConcat == Concat([i \in 1..(Len(inPuts) - 1) |-> inPuts[i].data])

\* C25 (as stated): in the worker test the batches are put in the order of
\* their chunks, the collected list is filter(check_prime, ...) of the
\* concatenation of the input chunks, and it is in ascending order.
C25_SingleWorkerAscending ==
    dpc = "collected" =>
        /\ \A i \in 1..Len(outPuts) : outPuts[i].id = i
        /\ returned = SelectSeq(InputConcat, check_prime)
        /\ Ascending(returned)

\* C25 (amended): in the worker test the batches are put in the order of their
\* chunks and the collected list is filter(check_prime, ...) of the
\* concatenation of the input chunks, in the order of the input; it is in
\* ascending order when the input chunks, concatenated, are.
C25_SingleWorkerKeepsInputOrder ==
    dpc = "collected" =>
        /\ \A i \in 1..Len(outPuts) : outPuts[i].id = i
        /\ returned = SelectSeq(InputConcat, check_prime)
        /\ Ascending(InputConcat) => Ascending(returned)

C25_Witness ==
    /\ dpc = "collected"
    /\ Len(results) = 2 /\ results[1].data # <<>> /\ results[2].data # <<>>
    /\ Ascending(InputConcat) /\ returned[1] < returned[Len(returned)]

\* C26: in the parallel search matches[i] is stored only by the thread that
\* runs iteration i, no step changes data or seq, and whatever the
\* interleaving the indices returned are those of search_sequence_numba.
C26_PrangeNoRace ==
    /\ [](spc \in {"prange", "done"} =>
            \A k \in 1..Len(owner) : writers[k] \subseteq {owner[k]})
    /\ [](spc = "done" /\ owner # <<>> => pres = search_sequence_numba(sdata, sseq))
    /\ [][UNCHANGED <<sdata, sseq, owner>>]_vars

\* both threads have stored into matches, each into its own iterations
C26_Witness ==
    /\ spc = "done" /\ Len(sseq) >= 2
    /\ \E k \in 1..Len(owner) : writers[k] = {"t1"}
    /\ \E k \in 1..Len(owner) : writers[k] = {"t2"}
    /\ pres # <<>>

\* C27: the results of search_sequence_numba2 over the chunks of
\* chunks(range(cor_size), n), chained, are the indices search_sequence_numba
\* returns: no match is lost between two chunks and none is reported twice.
C27_ChunkedSearchEqualsWhole ==
    spc = "done" => mpres = seqres

\* a match whose first and last element are covered by two different chunks
C27_Witness ==
    /\ spc = "done" /\ mpdone >= 2
    /\ \E k \in 1..Len(seqres) :
          (seqres[k] \div sn) # ((seqres[k] + Len(sseq) - 1) \div sn)

\* the calls that returned None
NoneCalls == {k \in Calls : callState[k] = "None"}

\* the number of positions of s that hold x
Occurrences(s, x) == Cardinality({i \in 1..Len(s) : s[i] = x})

\* C28: once starmap has returned, the queue and failed_vms together hold the
\* vm_name of every call that returned None, once each, and of no other call;
\* the drain loop ends, and then the queue is empty and failed_vms holds them all.
C28_FailureQueueMatchesResults ==
    /\ [](fpc = "drain" =>
            /\ Len(queue_for_failures) + Len(failed_vms) = Cardinality(NoneCalls)
            /\ \A k \in Calls :
                  Occurrences(queue_for_failures \o failed_vms, vmcalls[k])
                      = IF k \in NoneCalls THEN 1 ELSE 0)
    /\ [](fpc = "done" =>
            /\ queue_for_failures = <<>>
            /\ Len(failed_vms) = Cardinality(NoneCalls)
            /\ \A k \in Calls :
                  Occurrences(failed_vms, vmcalls[k]) = IF k \in NoneCalls THEN 1 ELSE 0)
    /\ (fpc = "drain" ~> fpc = "done")

C28_Witness ==
    /\ fpc = "done"
    /\ Len(failed_vms) >= 2
    /\ failed_vms[1] > failed_vms[2]
    /\ \E k \in Calls : callState[k] = "True"

\* the position of the last os.sep of str, 0 when it has none
LastSep(str) ==
    IF \A i \in 1..Len(str) : str[i] # Sep THEN 0
    ELSE CHOOSE i \in 1..Len(str) : str[i] = Sep /\ \A j \in (i + 1)..Len(str) : str[j] # Sep

\* the path the claim describes: <prefix>/Solutions/<name> gives
\* <prefix>/Applications/<name'>, the prefix kept as it is written and only a
\* trailing "-sol.qmd" of the name replaced; any other path gives None
ExpectedApp(str) ==
    LET l      == LastSep(str)
        dir    == SubSeq(str, 1, l - 1)
        name   == SubSeq(str, l + 1, Len(str))
        d      == LastSep(dir)
        name2  == IF endswith_sol(name)
                  THEN SubSeq(name, 1, Len(name) - 1) \o <<".qmd">>
                  ELSE name
    IN  IF l > 0 /\ SubSeq(dir, d + 1, Len(dir)) = <<"Solutions">>
        THEN SubSeq(dir, 1, d) \o <<"Applications", Sep>> \o name2
        ELSE NoPath

\* C29: solution2app returns None when the parent directory is not
\* Solutions, and otherwise the path with the same prefix, Applications in
\* place of Solutions, and a trailing "-sol.qmd" of the name replaced by ".qmd".
C29_Solution2appMapsPath ==
    apc = "ret" => appfile = ExpectedApp(filepath)

====
